---- MODULE Spec2Model ----
(***************************************************************************)
(* State-machine model of GolfEnv (src/src/golf_env.py) and of the helpers *)
(* of src/util.py it uses.                                                 *)
(*                                                                         *)
(* Numbers.  The program computes with float64.  The model computes with   *)
(* fixed-point integers: a coordinate or a distance v stands for v/SubPix  *)
(* pixels and every operation that is inexact in the program (division by  *)
(* a norm, a square root, a product with a coefficient) rounds its result  *)
(* to the nearest fixed-point value.  Rewards are held in units of         *)
(* 1/RewardDen, which makes the interpolation of the green reward exact.   *)
(*                                                                         *)
(* Raster.  resources/env.png is an asset outside the source; the model    *)
(* draws the raster from a small family of layouts of RasterSize x         *)
(* RasterSize pixels, and the start, the pin and the observation window    *)
(* are scaled from the 500 x 500 original to it.                           *)
(***************************************************************************)
EXTENDS Integers, Sequences, FiniteSets, TLC

VARIABLES img_gray,   \* self.__img_gray: the raster in use (a layout name)
          step_n,     \* self.__step_n
          ball_path_x, \* self.__ball_path_x
          ball_path_y, \* self.__ball_path_y
          state,      \* self._state
          call,       \* the last call of reset()/step(): outcome and locals
          fn_in,      \* input of a pure function under test
          fn_out      \* its result

vars == <<img_gray, step_n, ball_path_x, ball_path_y, state, call, fn_in, fn_out>>

-----------------------------------------------------------------------------
(* Bounds of the model *)

RasterSize == 8
SubPix == 2
MaxSteps == 3

-----------------------------------------------------------------------------
(* Class constants, golf_env.py:13-22 *)

IMG_SIZE_X == RasterSize
IMG_SIZE_Y == RasterSize
START_X == (256 * RasterSize) \div 500
START_Y == (116 * RasterSize) \div 500
PIN_X == (280 * RasterSize) \div 500
PIN_Y == (430 * RasterSize) \div 500
STATE_IMAGE_WIDTH == (300 * RasterSize) \div 500
STATE_IMAGE_HEIGHT == (300 * RasterSize) \div 500
STATE_IMAGE_OFFSET_HEIGHT == -((20 * RasterSize + 499) \div 500)
OUT_OF_IMG_INTENSITY == 0

\* OnLandAction, golf_env.py:39-42
NONE == 0
ROLLBACK == 1
SHORE == 2

-----------------------------------------------------------------------------
(* Arithmetic *)

\* nearest integer to a/b for b > 0 (a float operation rounds to nearest)
RoundDiv(a, b) == (2 * a + b) \div (2 * b)

\* floor of the square root of n >= 0
RECURSIVE SqrtFrom(_, _)
SqrtFrom(n, r) == IF (r + 1) * (r + 1) > n THEN r ELSE SqrtFrom(n, r + 1)

ISqrt(n) == SqrtFrom(n, 0)

\* np.linalg.norm of the vector (dx, dy), rounded to the nearest fixed-point value
Norm(dx, dy) == (ISqrt(4 * (dx * dx + dy * dy)) + 1) \div 2

\* num / sqrt(n2) for n2 > 0, rounded to the nearest integer
DivNorm(num, n2) ==
    LET m == (ISqrt((4 * num * num) \div n2) + 1) \div 2
    IN  IF num < 0 THEN -m ELSE m

\* int(round(v)) of a fixed-point v: Python rounds a half to the even integer
PyRound(v) ==
    LET q == v \div SubPix
        r == v % SubPix
    IN  IF 2 * r < SubPix THEN q
        ELSE IF 2 * r > SubPix THEN q + 1
        ELSE IF q % 2 = 0 THEN q ELSE q + 1

\* a whole number of pixels as a fixed-point value
Px(n) == n * SubPix

-----------------------------------------------------------------------------
(* util.py *)

\* is_within: with include_equality a coordinate equal to a bound is rejected
is_within(bounds_min, bounds_max, x, include_equality) ==
    \A i \in 1..Len(x) :
        IF include_equality
        THEN ~(x[i] <= bounds_min[i] \/ bounds_max[i] <= x[i])
        ELSE ~(x[i] < bounds_min[i] \/ bounds_max[i] < x[i])

-----------------------------------------------------------------------------
(* The terrain table, golf_env.py:56-66 *)

\* the keys of self.__area_info
AreaCodes == {-1, 70, 80, 50, 5, 55, 0}

\* coefficients are held in tenths
area_info ==
    [k \in AreaCodes |->
        CASE k = -1 -> [NAME |-> "TEE", DIST_COEF |-> 10, DEV_COEF |-> 10,
                        ON_LAND |-> NONE, TERMINATION |-> FALSE]
          [] k = 70 -> [NAME |-> "FAREWAY", DIST_COEF |-> 10, DEV_COEF |-> 10,
                        ON_LAND |-> NONE, TERMINATION |-> FALSE]
          [] k = 80 -> [NAME |-> "GREEN", DIST_COEF |-> 10, DEV_COEF |-> 10,
                        ON_LAND |-> NONE, TERMINATION |-> TRUE]
          [] k = 50 -> [NAME |-> "SAND", DIST_COEF |-> 6, DEV_COEF |-> 15,
                        ON_LAND |-> NONE, TERMINATION |-> FALSE]
          [] k = 5 -> [NAME |-> "WATER", DIST_COEF |-> 4, DEV_COEF |-> 10,
                       ON_LAND |-> SHORE, TERMINATION |-> FALSE]
          [] k = 55 -> [NAME |-> "ROUGH", DIST_COEF |-> 8, DEV_COEF |-> 15,
                        ON_LAND |-> NONE, TERMINATION |-> FALSE]
          [] k = 0 -> [NAME |-> "OB", DIST_COEF |-> 10, DEV_COEF |-> 10,
                       ON_LAND |-> ROLLBACK, TERMINATION |-> FALSE]]

\* rewards are held in units of 1/RewardDen
RewardDen == 12 * SubPix

\* the control points of green_reward_func, golf_env.py:66
GreenX == <<0, 1, 3, 15, 100>>
GreenY == <<-1, -1, -2, -3, -3>>

\* interp1d with its defaults refuses an argument outside [x[0], x[-1]]
InterpInRange(d) == Px(GreenX[1]) <= d /\ d <= Px(GreenX[Len(GreenX)])

\* interp1d, kind linear: the segment is the one searchsorted finds, clipped;
\* the value is slope * (d - x_lo) + y_lo
green_reward_func(d) ==
    LET hi == CHOOSE i \in 2..Len(GreenX) :
                  /\ (d <= Px(GreenX[i]) \/ i = Len(GreenX))
                  /\ \A j \in 2..(i - 1) : d > Px(GreenX[j])
        lo == hi - 1
    IN  GreenY[lo] * RewardDen
        + ((GreenY[hi] - GreenY[lo]) * (d - Px(GreenX[lo])) * (RewardDen \div SubPix))
            \div (GreenX[hi] - GreenX[lo])

\* whether area_info[k][REWARD](d) raises (ValueError of interp1d)
RewardRaises(k, d) == k = 80 /\ ~InterpInRange(d)

\* REWARD with the green entry lacking its constant -1
REWARD_green_without_penalty(k, d) ==
    CASE k = 80 -> green_reward_func(d)
      [] k = 5 -> -2 * RewardDen
      [] k = 0 -> -3 * RewardDen
      [] OTHER -> -RewardDen

\* area_info[k][REWARD](d)
REWARD(k, d) ==
    CASE k = 80 -> -RewardDen + green_reward_func(d)
      [] k = 5 -> -2 * RewardDen
      [] k = 0 -> -3 * RewardDen
      [] OTHER -> -RewardDen

-----------------------------------------------------------------------------
(* The raster.  Row 0 of the array is the top of the image; "up" below is   *)
(* the height of a row above the bottom row.                               *)

Layouts == {"course", "hole", "tee_hole"}

\* "course": fairway in front of the tee, rough to the left, sand to the
\* right, then a green with a pond across it; the pin is beyond the pond
CoursePixel(up, col) ==
    IF up <= START_Y + 1
    THEN IF col <= START_X - 2 THEN 55
         ELSE IF col >= START_X + 2 THEN 50
         ELSE 70
    ELSE IF up = START_Y + 3 THEN 5
    ELSE 80

\* img_gray[row, col] for array indices within the array.
\* "hole": the course with the front of the green given a grey level (99)
\* that is not in the table; "tee_hole": the course with such a level under
\* the tee
RasterAt(img, row, col) ==
    LET up == IMG_SIZE_Y - 1 - row
    IN  CASE img = "hole" /\ up = START_Y + 2 -> 99
          [] img = "tee_hole" /\ up = START_Y /\ col = START_X -> 99
          [] OTHER -> CoursePixel(up, col)

\* numpy indexing with a possibly negative index into an axis of length n
PyIndex(i, n) == IF i < 0 THEN i + n ELSE i

-----------------------------------------------------------------------------
(* golf_env.py:221-227 *)

\* __get_pixel_on(ball_pos) on the raster img; ball_pos is fixed-point
get_pixel_on(img, ball_pos) ==
    LET x0 == PyRound(ball_pos[1])
        y0 == PyRound(ball_pos[2])
    IN  IF is_within(<<0, 0>>, <<IMG_SIZE_X - 1, IMG_SIZE_Y - 1>>, <<x0, y0>>, TRUE)
        THEN RasterAt(img, PyIndex(-y0 - 1, IMG_SIZE_Y), x0)
        ELSE OUT_OF_IMG_INTENSITY

-----------------------------------------------------------------------------
(* util.py:6-18, as used with the angle atan2(hy, hx) *)

\* rotation_2d(atan2(hy, hx)) applied to (vx, vy); atan2(0, 0) is 0
Rotate(hx, hy, vx, vy) ==
    LET n2 == hx * hx + hy * hy
    IN  IF n2 = 0 THEN <<vx, vy>>
        ELSE <<DivNorm(vx * hx - vy * hy, n2), DivNorm(vx * hy + vy * hx, n2)>>

\* rotation_2d(deg_to_rad(90 * q)) applied to (vx, vy), q in -1..2
QuarterTurn(q, vx, vy) ==
    CASE q = 0 -> <<vx, vy>>
      [] q = 1 -> <<-vy, vx>>
      [] q = 2 -> <<-vx, -vy>>
      [] q = -1 -> <<vy, -vx>>

-----------------------------------------------------------------------------
(* golf_env.py:229-256 *)

\* int(w / 2) and int(-w / 2): int() truncates toward zero
HalfWidth == STATE_IMAGE_WIDTH \div 2

\* the value __generate_state_img writes for loop counters
\* (state_img_y, state_img_x) = (sy, sx), ball at fixed-point (x, y)
SampleAt(img, x, y, sy, sx) ==
    LET yl == STATE_IMAGE_OFFSET_HEIGHT + sy
        xl == -HalfWidth + sx
        r  == Rotate(Px(PIN_X) - x, Px(PIN_Y) - y, Px(yl), Px(xl))
        x0 == PyRound(r[1] + x)
        y0 == PyRound(r[2] + y)
    IN  IF is_within(<<0, 0>>, <<IMG_SIZE_X - 1, IMG_SIZE_Y - 1>>, <<x0, y0>>, TRUE)
        THEN RasterAt(img, PyIndex(-y0 - 1, IMG_SIZE_Y), x0)
        ELSE OUT_OF_IMG_INTENSITY

\* __generate_state_img(x, y): rows of the image, top row first.  The loops
\* write state_img[-sy - 1, -sx - 1]; a column they do not reach stays 0
generate_state_img(img, x, y) ==
    [row \in 1..STATE_IMAGE_HEIGHT |->
        [col \in 1..STATE_IMAGE_WIDTH |->
            LET sy == STATE_IMAGE_HEIGHT - row
                sx == STATE_IMAGE_WIDTH - col
            IN  IF sx < 2 * HalfWidth THEN SampleAt(img, x, y, sy, sx) ELSE 0]]

-----------------------------------------------------------------------------
(* The environment *)

\* np.linalg.norm(pos - [PIN_X, PIN_Y])
DistanceToPin(pos) == Norm(pos[1] - Px(PIN_X), pos[2] - Px(PIN_Y))

\* the record of a call before anything of it has run
NoCall ==
    [op |-> "none", exc |-> "none", line |-> 0,
     dist_coef |-> 0, dev_coef |-> 0,
     new_ball_pos |-> <<0, 0>>, new_pixel |-> 0, on_land |-> NONE,
     reward |-> 0, termination |-> FALSE,
     ret_img |-> <<0>>, ret_dist |-> 0,
     angle |-> 0, flight |-> [distance |-> 0, dev_x |-> 0, dev_y |-> 0],
     after_termination |-> FALSE]

\* no pure function is under test
NoFn == [fn |-> "none", a |-> <<>>, b |-> <<>>, c |-> <<>>, flag |-> FALSE]

\* the function under test has not been applied
NoOut == [done |-> FALSE, raised |-> FALSE, val |-> 0, bool |-> FALSE]

\* __init__, golf_env.py:44-67; the raster read from IMG_PATH is any layout
Init ==
    /\ img_gray \in Layouts
    /\ step_n = 0
    /\ ball_path_x = <<>>
    /\ ball_path_y = <<>>
    /\ state = [ball_pos |-> <<0>>, distance_to_pin |-> 0,
                landed_pixel_intensity |-> 0, state_img |-> <<0>>]
    /\ call = NoCall
    /\ fn_in = NoFn
    /\ fn_out = NoOut

\* reset() that re-places the ball but keeps the step counter and the path
reset_keeps_history ==
    LET start == <<Px(START_X), Px(START_Y)>>
        img   == generate_state_img(img_gray, start[1], start[2])
        dist  == DistanceToPin(start)
    IN  /\ state' = [ball_pos |-> start,
                     distance_to_pin |-> dist,
                     state_img |-> img,
                     landed_pixel_intensity |-> get_pixel_on(img_gray, start)]
        /\ call' = [NoCall EXCEPT !.op = "reset", !.ret_img = img, !.ret_dist = dist]
        /\ UNCHANGED <<img_gray, step_n, ball_path_x, ball_path_y, fn_in, fn_out>>

\* reset(), golf_env.py:92-106
reset ==
    LET start == <<Px(START_X), Px(START_Y)>>
        img   == generate_state_img(img_gray, start[1], start[2])
        dist  == DistanceToPin(start)
    IN  /\ step_n' = 0
        /\ ball_path_x' = <<start[1]>>
        /\ ball_path_y' = <<start[2]>>
        /\ state' = [ball_pos |-> start,
                     distance_to_pin |-> dist,
                     state_img |-> img,
                     landed_pixel_intensity |-> get_pixel_on(img_gray, start)]
        /\ call' = [NoCall EXCEPT !.op = "reset", !.ret_img = img, !.ret_dist = dist]
        /\ UNCHANGED <<img_gray, fn_in, fn_out>>

-----------------------------------------------------------------------------
(* Inputs of step() *)

\* action[0], as a number of quarter turns (0, 90, -90 degrees)
Angles == {0, 1, -1}

\* what _get_flight_model may return: (distance, dev_x, dev_y), fixed-point
Flights == {[distance |-> Px(2), dev_x |-> 1, dev_y |-> 1],
            [distance |-> Px(3), dev_x |-> 0, dev_y |-> 0]}

\* draws of the standard normal pair behind rng.normal
Draws == {<<0, 0>>, <<1, -1>>}

\* the SHORE loop leaving after its first step whatever the terrain there
ShoreWalk_single_step(img, p, u) ==
    [pos |-> <<p[1] + u[1], p[2] + u[2]>>,
     found |-> get_pixel_on(img, <<p[1] + u[1], p[2] + u[2]>>) \in AreaCodes]

\* the SHORE loop of golf_env.py:170-173 from position p with step u:
\* the position it leaves, or the lookup that failed
RECURSIVE ShoreWalk(_, _, _)
ShoreWalk(img, p, u) ==
    LET q == <<p[1] + u[1], p[2] + u[2]>>
        c == get_pixel_on(img, q)
    IN  IF c \notin AreaCodes THEN [pos |-> q, found |-> FALSE]
        ELSE IF area_info[c].ON_LAND # SHORE THEN [pos |-> q, found |-> TRUE]
        ELSE ShoreWalk(img, q, u)

\* the record of a step() that raised exc at line
Raised(line, exc, dist_coef, dev_coef, p, pixel) ==
    [NoCall EXCEPT !.op = "step", !.exc = exc, !.line = line,
                   !.dist_coef = dist_coef, !.dev_coef = dev_coef,
                   !.new_ball_pos = p, !.new_pixel = pixel]

\* the record of a step() that returned, st being the state it left
Returned(st, dist_coef, dev_coef, p, pixel, reward) ==
    [NoCall EXCEPT !.op = "step",
                   !.dist_coef = dist_coef, !.dev_coef = dev_coef,
                   !.new_ball_pos = p, !.new_pixel = pixel,
                   !.on_land = area_info[pixel].ON_LAND,
                   !.reward = reward,
                   !.termination = area_info[pixel].TERMINATION,
                   !.ret_img = st.state_img, !.ret_dist = st.distance_to_pin]

\* golf_env.py:150-158: the landing is committed
LandNone(img, st, dc, vc, p, pixel, d, reward) ==
    [path  |-> <<p>>,
     state |-> [state_img |-> generate_state_img(img, p[1], p[2]),
                distance_to_pin |-> d,
                ball_pos |-> p,
                landed_pixel_intensity |-> pixel],
     call  |-> Returned([state_img |-> generate_state_img(img, p[1], p[2]),
                         distance_to_pin |-> d],
                        dc, vc, p, pixel, reward)]

\* a ROLLBACK landing that commits the landing as a NONE landing does
LandRollback_commits(img, st, dc, vc, p, pixel, d, reward) ==
    LandNone(img, st, dc, vc, p, pixel, d, reward)

\* a ROLLBACK landing that does not append the old position to the path
LandRollback_single_append(img, st, dc, vc, p, pixel, d, reward) ==
    [path  |-> <<p>>,
     state |-> st,
     call  |-> Returned(st, dc, vc, p, pixel, reward)]

\* golf_env.py:160-163: the state is left alone, the old position is appended
LandRollback(img, st, dc, vc, p, pixel, d, reward) ==
    [path  |-> <<p, st.ball_pos>>,
     state |-> st,
     call  |-> Returned(st, dc, vc, p, pixel, reward)]

\* a SHORE commit whose image is rendered at the landing, before the walk
ShoreResolved_image_of_landing(img, st, dc, vc, p, pixel, d, reward, walk) ==
    IF ~walk.found
    THEN [path |-> <<p>>, state |-> st,
          call |-> Raised(173, "KeyError", dc, vc, p, pixel)]
    ELSE [path  |-> <<p, walk.pos>>,
          state |-> [state_img |-> generate_state_img(img, p[1], p[2]),
                     distance_to_pin |-> d,
                     ball_pos |-> walk.pos,
                     landed_pixel_intensity |-> pixel],
          call  |-> Returned([state_img |-> generate_state_img(img, p[1], p[2]),
                              distance_to_pin |-> d],
                             dc, vc, p, pixel, reward)]

\* golf_env.py:175-186, walk being the result of the loop: the position is
\* the one walked to, the distance d and the pixel are those of the landing
ShoreResolved(img, st, dc, vc, p, pixel, d, reward, walk) ==
    IF ~walk.found
    THEN [path |-> <<p>>, state |-> st,
          call |-> Raised(173, "KeyError", dc, vc, p, pixel)]
    ELSE [path  |-> <<p, walk.pos>>,
          state |-> [state_img |-> generate_state_img(img, walk.pos[1], walk.pos[2]),
                     distance_to_pin |-> d,
                     ball_pos |-> walk.pos,
                     landed_pixel_intensity |-> pixel],
          call  |-> Returned([state_img |-> generate_state_img(img, walk.pos[1], walk.pos[2]),
                              distance_to_pin |-> d],
                             dc, vc, p, pixel, reward)]

\* golf_env.py:167-168: the vector from the pin to p, divided by its norm
\* (p is not the pin)
from_pin_vector(p) ==
    LET fx == p[1] - Px(PIN_X)
        fy == p[2] - Px(PIN_Y)
    IN  <<DivNorm(SubPix * fx, fx * fx + fy * fy),
          DivNorm(SubPix * fy, fx * fx + fy * fy)>>

\* golf_env.py:165-173: the unit vector from the pin, then the loop; a landing
\* on the pin makes the vector nan, which round() refuses
LandShore(img, st, dc, vc, p, pixel, d, reward) ==
    LET fx == p[1] - Px(PIN_X)
        fy == p[2] - Px(PIN_Y)
    IN  IF fx = 0 /\ fy = 0
        THEN [path |-> <<p>>, state |-> st,
              call |-> Raised(173, "ValueError", dc, vc, p, pixel)]
        ELSE ShoreResolved(img, st, dc, vc, p, pixel, d, reward,
                 ShoreWalk(img, p, from_pin_vector(p)))

\* a landing rewarded by the terrain the shot was played from
Landed_rewards_previous_terrain(img, st, dc, vc, p, pixel, d) ==
    IF RewardRaises(pixel, d)
    THEN [path |-> <<p>>, state |-> st,
          call |-> Raised(147, "ValueError", dc, vc, p, pixel)]
    ELSE CASE area_info[pixel].ON_LAND = NONE ->
                 LandNone(img, st, dc, vc, p, pixel, d,
                          REWARD(st.landed_pixel_intensity, d))
           [] area_info[pixel].ON_LAND = ROLLBACK ->
                 LandRollback(img, st, dc, vc, p, pixel, d,
                              REWARD(st.landed_pixel_intensity, d))
           [] area_info[pixel].ON_LAND = SHORE ->
                 LandShore(img, st, dc, vc, p, pixel, d,
                           REWARD(st.landed_pixel_intensity, d))

\* golf_env.py:146-186 for a landing pixel the table has
Landed(img, st, dc, vc, p, pixel, d) ==
    IF RewardRaises(pixel, d)
    THEN [path |-> <<p>>, state |-> st,
          call |-> Raised(147, "ValueError", dc, vc, p, pixel)]
    ELSE CASE area_info[pixel].ON_LAND = NONE ->
                 LandNone(img, st, dc, vc, p, pixel, d, REWARD(pixel, d))
           [] area_info[pixel].ON_LAND = ROLLBACK ->
                 LandRollback(img, st, dc, vc, p, pixel, d, REWARD(pixel, d))
           [] area_info[pixel].ON_LAND = SHORE ->
                 LandShore(img, st, dc, vc, p, pixel, d, REWARD(pixel, d))

\* golf_env.py:139-144: a landing pixel the table lacks raises
Flown(img, st, dc, vc, p, pixel) ==
    IF pixel \notin AreaCodes
    THEN [path |-> <<p>>, state |-> st,
          call |-> Raised(140, "NoAreaInfoAssignedException", dc, vc, p, pixel)]
    ELSE Landed(img, st, dc, vc, p, pixel, DistanceToPin(p))

\* a landing computed along the raster's x axis, whatever the heading to the pin
NewBallPos_ignores_heading(st, dc, vc, angle, flight, z) ==
    LET shoot  == <<RoundDiv(flight.distance * dc, 10)
                      + RoundDiv(z[1] * flight.dev_x * vc, 10),
                    RoundDiv(z[2] * flight.dev_y * vc, 10)>>
        turned == QuarterTurn(angle, shoot[1], shoot[2])
    IN  <<st.ball_pos[1] + turned[1], st.ball_pos[2] + turned[2]>>

\* golf_env.py:123-131: the landing position
NewBallPos(st, dc, vc, angle, flight, z) ==
    LET shoot  == <<RoundDiv(flight.distance * dc, 10)
                      + RoundDiv(z[1] * flight.dev_x * vc, 10),
                    RoundDiv(z[2] * flight.dev_y * vc, 10)>>
        turned == QuarterTurn(angle, shoot[1], shoot[2])
        delta  == Rotate(Px(PIN_X) - st.ball_pos[1], Px(PIN_Y) - st.ball_pos[2],
                         turned[1], turned[2])
    IN  <<st.ball_pos[1] + delta[1], st.ball_pos[2] + delta[2]>>

\* golf_env.py:133-138 for the landing position p: it is classified
Shot(img, st, dc, vc, p) ==
    Flown(img, st, dc, vc, p, get_pixel_on(img, p))

\* the outcome of step(action) in state st: what is appended to the path,
\* the state left and the record of the call
StepOutcome(img, st, angle, flight, z) ==
    IF st.landed_pixel_intensity \notin AreaCodes
    THEN [path |-> <<>>, state |-> st, call |-> Raised(119, "KeyError", 0, 0, <<0, 0>>, 0)]
    ELSE IF Len(st.ball_pos) < 2
    THEN [path |-> <<>>, state |-> st,
          call |-> Raised(126, "IndexError",
                          area_info[st.landed_pixel_intensity].DIST_COEF,
                          area_info[st.landed_pixel_intensity].DEV_COEF, <<0, 0>>, 0)]
    ELSE Shot(img, st,
              area_info[st.landed_pixel_intensity].DIST_COEF,
              area_info[st.landed_pixel_intensity].DEV_COEF,
              NewBallPos(st, area_info[st.landed_pixel_intensity].DIST_COEF,
                         area_info[st.landed_pixel_intensity].DEV_COEF,
                         angle, flight, z))

\* a step() that refuses to play once the last step() returned termination
step_rejects_after_termination(angle, flight, z) ==
    /\ step_n < MaxSteps
    /\ step_n' = step_n + 1
    /\ \E o \in {IF call.op = "step" /\ call.exc = "none" /\ call.termination
                 THEN [path |-> <<>>, state |-> state,
                       call |-> Raised(119, "KeyError", 0, 0, <<0, 0>>, 0)]
                 ELSE StepOutcome(img_gray, state, angle, flight, z)} :
        /\ ball_path_x' = ball_path_x \o [i \in 1..Len(o.path) |-> o.path[i][1]]
        /\ ball_path_y' = ball_path_y \o [i \in 1..Len(o.path) |-> o.path[i][2]]
        /\ state' = o.state
        /\ call' = [o.call EXCEPT !.angle = angle, !.flight = flight,
                                  !.after_termination =
                                      /\ call.op = "step"
                                      /\ call.exc = "none"
                                      /\ call.termination]
    /\ UNCHANGED <<img_gray, fn_in, fn_out>>

\* step(action), golf_env.py:108-199; the record of the call keeps the action's
\* angle, the flight model's answer, and whether the call before this one was
\* a step() that returned termination = True
step(angle, flight, z) ==
    /\ step_n < MaxSteps
    /\ step_n' = step_n + 1
    /\ \E o \in {StepOutcome(img_gray, state, angle, flight, z)} :
        /\ ball_path_x' = ball_path_x \o [i \in 1..Len(o.path) |-> o.path[i][1]]
        /\ ball_path_y' = ball_path_y \o [i \in 1..Len(o.path) |-> o.path[i][2]]
        /\ state' = o.state
        /\ call' = [o.call EXCEPT !.angle = angle, !.flight = flight,
                                  !.after_termination =
                                      /\ call.op = "step"
                                      /\ call.exc = "none"
                                      /\ call.termination]
    /\ UNCHANGED <<img_gray, fn_in, fn_out>>

Next ==
    \/ reset
    \/ \E angle \in Angles, flight \in Flights, z \in Draws : step(angle, flight, z)

Spec == Init /\ [][Next]_vars

-----------------------------------------------------------------------------
(* The pure functions on their own: Init draws an input, one action applies *)
(* the function to it.                                                     *)

\* is_within(a, b, c, flag)
WithinInputs ==
    [fn : {"is_within"}, a : {<<0, 0>>, <<1, 0>>}, b : {<<3, 3>>, <<2, 3>>},
     c : (-1..4) \X (-1..4), flag : BOOLEAN]

\* __get_pixel_on(c): positions from a pixel outside the raster on each side
PixelInputs ==
    [fn : {"get_pixel_on"}, a : {<<>>}, b : {<<>>},
     c : (-Px(1)..Px(IMG_SIZE_X)) \X (-Px(1)..Px(IMG_SIZE_Y)), flag : {FALSE}]

\* area_info[a[1]][REWARD](c[1]): distances up to a pixel beyond the last
\* control point
RewardInputs ==
    [fn : {"REWARD"}, a : {<<k>> : k \in AreaCodes}, b : {<<>>},
     c : {<<d>> : d \in 0..Px(GreenX[Len(GreenX)] + 1)}, flag : {FALSE}]

InitFn ==
    /\ img_gray \in Layouts
    /\ step_n = 0
    /\ ball_path_x = <<>>
    /\ ball_path_y = <<>>
    /\ state = [ball_pos |-> <<0>>, distance_to_pin |-> 0,
                landed_pixel_intensity |-> 0, state_img |-> <<0>>]
    /\ call = NoCall
    /\ (fn_in \in WithinInputs \/ fn_in \in PixelInputs \/ fn_in \in RewardInputs)
    /\ fn_out = NoOut

ApplyWithin ==
    /\ fn_in.fn = "is_within" /\ ~fn_out.done
    /\ fn_out' = [NoOut EXCEPT !.done = TRUE,
                               !.bool = is_within(fn_in.a, fn_in.b, fn_in.c, fn_in.flag)]
    /\ UNCHANGED <<img_gray, step_n, ball_path_x, ball_path_y, state, call, fn_in>>

ApplyPixel ==
    /\ fn_in.fn = "get_pixel_on" /\ ~fn_out.done
    /\ fn_out' = [NoOut EXCEPT !.done = TRUE, !.val = get_pixel_on(img_gray, fn_in.c)]
    /\ UNCHANGED <<img_gray, step_n, ball_path_x, ball_path_y, state, call, fn_in>>

ApplyReward ==
    /\ fn_in.fn = "REWARD" /\ ~fn_out.done
    /\ fn_out' = IF RewardRaises(fn_in.a[1], fn_in.c[1])
                 THEN [NoOut EXCEPT !.done = TRUE, !.raised = TRUE]
                 ELSE [NoOut EXCEPT !.done = TRUE, !.val = REWARD(fn_in.a[1], fn_in.c[1])]
    /\ UNCHANGED <<img_gray, step_n, ball_path_x, ball_path_y, state, call, fn_in>>

NextFn == ApplyWithin \/ ApplyPixel \/ ApplyReward

SpecFn == InitFn /\ [][NextFn]_vars

-----------------------------------------------------------------------------
(* The SHORE loop of golf_env.py:170-173 one iteration at a time: Init draws *)
(* a raster, a landing on a SHORE pixel and the ON_LAND entry of the          *)
(* out-of-raster sentinel (the table's own, or SHORE); one action is one pass *)
(* through the loop body.                                                     *)

\* the iterations the model follows a walk for
MaxWalk == 2 * (IMG_SIZE_X + IMG_SIZE_Y)

\* ON_LAND of the table entry for code, in a table whose sentinel entry is
\* SHORE when sentinel_shore, and the table of golf_env.py:56-65 otherwise
OnLandOf(sentinel_shore, code) ==
    IF sentinel_shore /\ code = OUT_OF_IMG_INTENSITY THEN SHORE
    ELSE area_info[code].ON_LAND

\* landings on a SHORE pixel, off the pin: a is the landing, b the unit
\* vector, c the position the loop has reached, flag the sentinel's entry
WalkInputs ==
    {[fn |-> "shore_walk", a |-> p, b |-> from_pin_vector(p), c |-> p, flag |-> f] :
        p \in {q \in (0..Px(IMG_SIZE_X - 1)) \X (0..Px(IMG_SIZE_Y - 1)) :
                  q # <<Px(PIN_X), Px(PIN_Y)>>},
        f \in BOOLEAN}

InitWalk ==
    /\ img_gray \in Layouts
    /\ step_n = 0
    /\ ball_path_x = <<>>
    /\ ball_path_y = <<>>
    /\ state = [ball_pos |-> <<0>>, distance_to_pin |-> 0,
                landed_pixel_intensity |-> 0, state_img |-> <<0>>]
    /\ call = NoCall
    /\ fn_in \in WalkInputs
    /\ get_pixel_on(img_gray, fn_in.a) \in AreaCodes
    /\ OnLandOf(fn_in.flag, get_pixel_on(img_gray, fn_in.a)) = SHORE
    /\ fn_out = NoOut

\* golf_env.py:171-173, one pass: the position moves by the unit vector, the
\* pixel there is looked up (KeyError when the table lacks it) and the loop
\* is left when its entry is not SHORE
WalkIterate ==
    /\ fn_in.fn = "shore_walk" /\ ~fn_out.done /\ ~fn_out.raised
    /\ fn_out.val < MaxWalk
    /\ LET q == <<fn_in.c[1] + fn_in.b[1], fn_in.c[2] + fn_in.b[2]>>
           k == get_pixel_on(img_gray, q)
       IN  /\ fn_in' = [fn_in EXCEPT !.c = q]
           /\ fn_out' = IF k \notin AreaCodes
                        THEN [fn_out EXCEPT !.val = @ + 1, !.raised = TRUE]
                        ELSE [fn_out EXCEPT !.val = @ + 1,
                                !.done = OnLandOf(fn_in.flag, k) # SHORE]
    /\ UNCHANGED <<img_gray, step_n, ball_path_x, ball_path_y, state, call>>

NextWalk == WalkIterate

SpecWalk == InitWalk /\ [][NextWalk]_vars

-----------------------------------------------------------------------------
(* Properties of reset() and step() *)

\* the last call was a step() that returned
Completed == call.op = "step" /\ call.exc = "none"

\* the pixel __get_pixel_on rounds position p to lies in the raster
RoundsInside(p) ==
    /\ PyRound(p[1]) \in 0..(IMG_SIZE_X - 1)
    /\ PyRound(p[2]) \in 0..(IMG_SIZE_Y - 1)

\* C1: after reset() and after every completed step(), the stored
\* distance_to_pin is the Euclidean distance from the stored ball position to
\* the pin.
C1_DistanceMatchesPosition ==
    (call.op = "reset" \/ Completed)
        => state.distance_to_pin = DistanceToPin(state.ball_pos)

\* C2: a step() whose landing classifies to a ROLLBACK terrain - which every
\* landing that rounds to a pixel outside the raster does - returns without
\* an error, leaves ball position, distance, terrain code and observation
\* image as they were, returns that unchanged observation, and still returns
\* the reward of the ROLLBACK terrain (OB: -3).
C2_RollbackKeepsState ==
    [][(/\ call'.op = "step" /\ step_n' = step_n + 1
        /\ call'.line \notin {119, 126}
        /\ \/ ~RoundsInside(call'.new_ball_pos)
           \/ /\ call'.new_pixel \in AreaCodes
              /\ area_info[call'.new_pixel].ON_LAND = ROLLBACK)
       => (/\ call'.exc = "none"
           /\ call'.on_land = ROLLBACK
           /\ state' = state
           /\ call'.ret_img = state.state_img
           /\ call'.ret_dist = state.distance_to_pin
           /\ call'.reward = -3 * RewardDen)]_vars

\* a step landed outside the raster and was rolled back
C2_Witness ==
    /\ Completed /\ call.on_land = ROLLBACK
    /\ ~RoundsInside(call.new_ball_pos)
    /\ call.new_ball_pos # state.ball_pos

\* C3: when a step() that landed on a SHORE terrain completes, the position
\* it committed does not classify to a terrain whose on-land action is SHORE.
C3_ShoreLeavesShore ==
    (Completed /\ call.on_land = SHORE)
        => /\ get_pixel_on(img_gray, state.ball_pos) \in AreaCodes
           /\ area_info[get_pixel_on(img_gray, state.ball_pos)].ON_LAND # SHORE

\* a step landed in the water and the walk moved the ball
C3_Witness ==
    /\ Completed /\ call.on_land = SHORE
    /\ state.ball_pos # call.new_ball_pos

\* C4: after reset() and after every completed step() the stored terrain code
\* is the classification of the stored ball position, and after a SHORE
\* landing the stored distance is that of the position walked to.
C4_CodeMatchesPosition ==
    (call.op = "reset" \/ Completed)
        => /\ state.landed_pixel_intensity = get_pixel_on(img_gray, state.ball_pos)
           /\ (call.op = "step" /\ call.on_land = SHORE
                  => state.distance_to_pin = DistanceToPin(state.ball_pos))

\* C5: the termination flag a completed step() returns is true exactly when
\* the terrain at the committed ball position terminates.
C5_TerminationMatchesPosition ==
    Completed
        => (call.termination <=>
              /\ get_pixel_on(img_gray, state.ball_pos) \in AreaCodes
              /\ area_info[get_pixel_on(img_gray, state.ball_pos)].TERMINATION)

\* C9: after reset(), called in any state, the ball is at the start, the
\* distance is |start - pin|, the terrain code is the classification of the
\* start, the observation is the one rendered at the start, the step counter
\* is 0 and the path holds the start alone; the call returns that observation
\* and distance, so two calls in a row return the same.
C9_ResetReinitialises ==
    call.op = "reset"
        => /\ state.ball_pos = <<Px(START_X), Px(START_Y)>>
           /\ state.distance_to_pin
                = Norm(Px(START_X) - Px(PIN_X), Px(START_Y) - Px(PIN_Y))
           /\ state.landed_pixel_intensity
                = get_pixel_on(img_gray, <<Px(START_X), Px(START_Y)>>)
           /\ state.state_img = generate_state_img(img_gray, Px(START_X), Px(START_Y))
           /\ step_n = 0
           /\ ball_path_x = <<Px(START_X)>>
           /\ ball_path_y = <<Px(START_Y)>>
           /\ call.ret_img = state.state_img
           /\ call.ret_dist = state.distance_to_pin

\* reset() has run
C9_Witness == call.op = "reset" /\ Len(state.ball_pos) = 2

\* C10: a step() that looks up a terrain code the table does not have - the
\* code stored before the shot, the code of the landing pixel or the code of
\* a pixel of the SHORE walk - fails with NoAreaInfoAssignedException.
C10_AbsentCodeRaisesNoAreaInfo ==
    (/\ call.op = "step"
     /\ \/ state.landed_pixel_intensity \notin AreaCodes
        \/ call.line = 140
        \/ call.line = 173 /\ call.exc = "KeyError")
        => call.exc = "NoAreaInfoAssignedException"

\* C12: after reset() and after every completed step() the committed ball
\* position lies within the raster bounds [0, IMG_SIZE_X - 1] x
\* [0, IMG_SIZE_Y - 1].
C12_BallWithinRaster ==
    (call.op = "reset" \/ Completed)
        => /\ 0 <= state.ball_pos[1] /\ state.ball_pos[1] <= Px(IMG_SIZE_X - 1)
           /\ 0 <= state.ball_pos[2] /\ state.ball_pos[2] <= Px(IMG_SIZE_Y - 1)

\* the reward of the reference table for a landing on pixel k at distance d
\* from the pin, written out
TableReward(k, d) ==
    CASE k \in {-1, 70, 50, 55} -> -RewardDen
      [] k = 5 -> -2 * RewardDen
      [] k = 0 -> -3 * RewardDen
      [] k = 80 -> -RewardDen
                     + (IF d <= Px(1) THEN -RewardDen
                        ELSE IF d <= Px(3) THEN -RewardDen - 6 * (d - Px(1))
                        ELSE IF d <= Px(15) THEN -2 * RewardDen - (d - Px(3))
                        ELSE -3 * RewardDen)

\* C14: the reward a completed step() returns is the reward of the terrain
\* classified at the first landing position, at that position's distance to
\* the pin, whatever the terrain before the shot and wherever ROLLBACK or
\* SHORE leaves the ball.
C14_RewardOfFirstLanding ==
    Completed
        => /\ call.new_pixel = get_pixel_on(img_gray, call.new_ball_pos)
           /\ call.reward = TableReward(call.new_pixel, DistanceToPin(call.new_ball_pos))

\* a step played from the rough landed in the water: the reward is the
\* water's, the ball rests elsewhere
C14_Witness ==
    /\ Completed /\ call.on_land = SHORE
    /\ call.reward = -2 * RewardDen
    /\ call.dist_coef = 8
    /\ state.ball_pos # call.new_ball_pos

\* |v|
Magnitude(v) == IF v < 0 THEN -v ELSE v

\* the landing at displacement (dx, dy) from the ball lies, up to half a
\* fixed-point unit per coordinate, on the ray of direction (hx, hy) at
\* distance d from the ball
OnRayAt(hx, hy, dx, dy, d) ==
    /\ 2 * Magnitude(hx * dy - hy * dx) <= Magnitude(hx) + Magnitude(hy)
    /\ hx * dx + hy * dy >= 0
    /\ dx * dx + dy * dy <= (d + 1) * (d + 1)
    /\ d >= 1 => dx * dx + dy * dy >= (d - 1) * (d - 1)

\* C15: a step() with action angle 0 whose flight has dev_x = dev_y = 0 lands
\* on the ray from the position before the shot toward the pin, at the flight
\* distance times the distance coefficient of the terrain code stored for
\* that position (up to the rounding of the fixed-point numbers).
C15_ZeroDispersionLandsOnPinRay ==
    [][(/\ call'.op = "step" /\ step_n' = step_n + 1
        /\ call'.line \notin {119, 126}
        /\ call'.angle = 0
        /\ call'.flight.dev_x = 0 /\ call'.flight.dev_y = 0)
         => OnRayAt(Px(PIN_X) - state.ball_pos[1], Px(PIN_Y) - state.ball_pos[2],
                    call'.new_ball_pos[1] - state.ball_pos[1],
                    call'.new_ball_pos[2] - state.ball_pos[2],
                    RoundDiv(call'.flight.distance
                               * area_info[state.landed_pixel_intensity].DIST_COEF,
                             10))]_vars

\* a straight shot without dispersion was played from the sand, off the line
\* through the start and the pin, with the sand's shortened distance
C15_Witness ==
    /\ call.op = "step" /\ call.line \notin {119, 126}
    /\ call.angle = 0 /\ call.flight.dev_x = 0 /\ call.flight.dev_y = 0
    /\ call.dist_coef = 6
    /\ Len(ball_path_x) >= 3
    /\ call.new_ball_pos[1] # Px(PIN_X)

\* C19: a step() that follows a step() which returned termination = True is
\* not rejected: it is played from the committed green position with
\* GREEN's coefficients, and when it completes it returns the reward and
\* termination of its own landing.
C19_StepAfterTerminationIsOrdinary ==
    [][(Completed /\ call.termination /\ step_n' = step_n + 1)
         => /\ get_pixel_on(img_gray, state.ball_pos) = 80
            /\ state.landed_pixel_intensity = 80
            /\ call'.op = "step"
            /\ call'.line \notin {119, 126}
            /\ call'.dist_coef = area_info[80].DIST_COEF
            /\ call'.dev_coef = area_info[80].DEV_COEF
            /\ \E z \in Draws :
                 call'.new_ball_pos
                   = NewBallPos(state, area_info[80].DIST_COEF, area_info[80].DEV_COEF,
                                call'.angle, call'.flight, z)
            /\ call'.exc = "none"
                 => /\ call'.reward
                         = TableReward(call'.new_pixel,
                                       DistanceToPin(call'.new_ball_pos))
                    /\ call'.termination = (call'.new_pixel = 80)]_vars

\* the step after a terminating one committed a position off the green
C19_Witness ==
    /\ Completed /\ call.after_termination
    /\ call.on_land = NONE
    /\ state.ball_pos = call.new_ball_pos
    /\ ~call.termination
    /\ get_pixel_on(img_gray, state.ball_pos) # 80

\* what a completed step appends to the path: the landing, then for ROLLBACK
\* the position before the shot (old) and for SHORE the position committed
PathAppended(on_land, landing, old, committed) ==
    CASE on_land = NONE -> <<landing>>
      [] on_land = ROLLBACK -> <<landing, old>>
      [] on_land = SHORE -> <<landing, committed>>

\* C16: reset() leaves the path [start]; a completed step() appends the
\* landing, and then the unchanged position (ROLLBACK) or the position after
\* the walk (SHORE); so after reset() and after a completed step() the last
\* path entry is the committed ball position.
C16_PathBookkeeping ==
    /\ [](call.op = "reset"
            => ball_path_x = <<Px(START_X)>> /\ ball_path_y = <<Px(START_Y)>>)
    /\ []((call.op = "reset" \/ Completed)
            => /\ Len(ball_path_x) = Len(ball_path_y)
               /\ Len(ball_path_x) >= 1
               /\ state.ball_pos = <<ball_path_x[Len(ball_path_x)],
                                     ball_path_y[Len(ball_path_y)]>>)
    /\ [][(call'.op = "step" /\ call'.exc = "none" /\ step_n' = step_n + 1)
            => LET more == PathAppended(call'.on_land, call'.new_ball_pos,
                                        state.ball_pos, state'.ball_pos)
               IN  /\ ball_path_x' = ball_path_x \o [i \in 1..Len(more) |-> more[i][1]]
                   /\ ball_path_y' = ball_path_y \o [i \in 1..Len(more) |-> more[i][2]]]_vars

\* a first shot was rolled back: start, landing, start again
C16_Witness ==
    /\ Completed /\ call.on_land = ROLLBACK
    /\ Len(ball_path_x) = 3
    /\ <<ball_path_x[2], ball_path_y[2]>> = call.new_ball_pos
    /\ <<ball_path_x[3], ball_path_y[3]>> = <<ball_path_x[1], ball_path_y[1]>>

\* C17: after reset() and after every completed step() the stored
\* observation image is the one rendered for the committed ball position.
C17_ImageOfCommittedPosition ==
    (call.op = "reset" \/ Completed)
        => state.state_img
             = generate_state_img(img_gray, state.ball_pos[1], state.ball_pos[2])

\* a shore walk moved the ball and the image is not the one of the landing
C17_Witness ==
    /\ Completed /\ call.on_land = SHORE
    /\ state.state_img
         # generate_state_img(img_gray, call.new_ball_pos[1], call.new_ball_pos[2])

\* C18: a step() that fails with NoAreaInfoAssignedException on the landing
\* pixel leaves everything as before the call: the state, the step counter
\* and the path.
C18_FailedStepLeavesNoTrace ==
    [][(call'.op = "step" /\ call'.line = 140 /\ step_n' # step_n)
         => /\ state' = state
            /\ step_n' = step_n
            /\ ball_path_x' = ball_path_x
            /\ ball_path_y' = ball_path_y]_vars

\* C13: with the table of the source, a step() whose landing classifies to a
\* SHORE terrain runs to completion: the walk reaches a position whose
\* classification is not SHORE and the step commits it.
C13_ShoreLandingCompletes ==
    (/\ call.op = "step" /\ call.line \notin {119, 126}
     /\ call.new_pixel \in AreaCodes
     /\ area_info[call.new_pixel].ON_LAND = SHORE)
        => /\ call.exc = "none"
           /\ get_pixel_on(img_gray, state.ball_pos) \in AreaCodes
           /\ area_info[get_pixel_on(img_gray, state.ball_pos)].ON_LAND # SHORE

-----------------------------------------------------------------------------
(* Properties of the SHORE loop *)

\* the most unit steps a walk may take across the raster
ShoreBound == IMG_SIZE_X + IMG_SIZE_Y

WalkMatchesShoreWalk ==
    (fn_in.fn = "shore_walk" /\ ~fn_in.flag /\ (fn_out.done \/ fn_out.raised))
        => /\ fn_in.c = ShoreWalk(img_gray, fn_in.a, fn_in.b).pos
           /\ fn_out.done = ShoreWalk(img_gray, fn_in.a, fn_in.b).found

\* under the source's table every walk is over within ShoreBound iterations
ReferenceWalkEnds ==
    (fn_in.fn = "shore_walk" /\ ~fn_in.flag)
        => /\ fn_out.val <= ShoreBound
           /\ fn_out.val = ShoreBound => (fn_out.done \/ fn_out.raised)


\* the piecewise-linear function through (0,-1), (1,-1), (3,-2), (15,-3),
\* (100,-3), constant beyond; d fixed-point, value in units of 1/RewardDen
ControlPointReward(d) ==
    IF d <= Px(1) THEN -RewardDen
    ELSE IF d <= Px(3) THEN -RewardDen - 6 * (d - Px(1))
    ELSE IF d <= Px(15) THEN -2 * RewardDen - (d - Px(3))
    ELSE -3 * RewardDen

\* C6 as stated: the reward function of the GREEN entry is the function
\* through the control points, clamped (not failing) beyond the last one.
C6_GreenRewardIsControlPoints ==
    (fn_in.fn = "REWARD" /\ fn_in.a = <<80>> /\ fn_out.done)
        => /\ ~fn_out.raised
           /\ fn_out.val = ControlPointReward(fn_in.c[1])

\* C6 as amended: for 0 <= d <= 100 the reward function of the GREEN entry is
\* the function through the control points less 1 (-2 at 0 and 1, -3 at 3,
\* -4 at 15 and 100, linear between); for d > 100 it fails.
C6_GreenRewardIsPenaltyPlusControlPoints ==
    (fn_in.fn = "REWARD" /\ fn_in.a = <<80>> /\ fn_out.done)
        => IF fn_in.c[1] <= Px(100)
           THEN /\ ~fn_out.raised
                /\ fn_out.val = ControlPointReward(fn_in.c[1]) - RewardDen
           ELSE fn_out.raised

\* the green reward halfway between the control points 1 and 3
C6_Witness ==
    /\ fn_in.fn = "REWARD" /\ fn_in.a = <<80>> /\ fn_out.done
    /\ fn_in.c = <<Px(2)>>
    /\ 2 * fn_out.val = -5 * RewardDen

\* C7: for a position strictly inside the raster bounds the classification is
\* the raster value at the row-mirrored address of its nearest pixel; for a
\* position outside the bounds it is the sentinel.
C7_ClassifyInsideAndOutside ==
    (fn_in.fn = "get_pixel_on" /\ fn_out.done)
        => LET p == fn_in.c
           IN  /\ (/\ 0 < p[1] /\ p[1] < Px(IMG_SIZE_X - 1)
                   /\ 0 < p[2] /\ p[2] < Px(IMG_SIZE_Y - 1))
                      => fn_out.val = RasterAt(img_gray,
                                               IMG_SIZE_Y - 1 - PyRound(p[2]),
                                               PyRound(p[1]))
               /\ (\/ p[1] < 0 \/ p[1] > Px(IMG_SIZE_X - 1)
                   \/ p[2] < 0 \/ p[2] > Px(IMG_SIZE_Y - 1))
                      => fn_out.val = OUT_OF_IMG_INTENSITY

\* C8: is_within with include_equality is true exactly when the point is
\* between the bounds, the bounds included, on every axis; without it the
\* bounds are excluded.
C8_WithinClosedByDefault ==
    (fn_in.fn = "is_within" /\ fn_out.done)
        => (fn_out.bool <=>
              \A i \in 1..Len(fn_in.c) :
                  IF fn_in.flag
                  THEN fn_in.a[i] <= fn_in.c[i] /\ fn_in.c[i] <= fn_in.b[i]
                  ELSE fn_in.a[i] < fn_in.c[i] /\ fn_in.c[i] < fn_in.b[i])

====
